---- MODULE Spec2Model ----
(***************************************************************************)
(* Cycle model of jpegenc.models.processing.ProcessingSubblock: the        *)
(* constructor, the wiring done by process(), the combinational process    *)
(* beh_ready and the clocked generator processing_model.                   *)
(*                                                                         *)
(* One Edge* action is one rising clock edge.  Every right-hand side is    *)
(* read from the state committed before the edge (MyHDL signals: a write   *)
(* to .next becomes visible after the edge).  Conventions used by the      *)
(* properties:                                                             *)
(*   - "readiness at edge e" is the value of datain.ready that a transfer  *)
(*     at edge e is decided with, i.e. its value just before edge e        *)
(*     (readyAt[e]);                                                       *)
(*   - "the sample appears on the output at edge e" means that the update  *)
(*     of edge e drives it on dataout (firstOut).                          *)
(* DataStream and FIFOReadyValid are not part of the source file; what is  *)
(* needed of them is modelled from the specification and marked so.        *)
(***************************************************************************)
EXTENDS Integers, Sequences, FiniteSets, TLC

\* ---------------------------------------------------------------- bounds
MaxCtp == 3
NSamples == 3
MaxEdges == 8

\* ------------------------------------------------------------ value sets
Idle == [data |-> 0, valid |-> FALSE]

Sample(n) == [data |-> n, valid |-> TRUE]

CtpArgs == 0 .. MaxCtp

\* "True" / "False" stand for the Python booleans, the rest are str values
BufferedArgs == {"True", "False", "input", "output", "inout"}

Widths == {8, 16}

\* the cycles_to_process arguments with their Python type: True and False
\* are bool values (1 and 0), 2.0 is a float
CtpTyped ==
    {<<"int", c>> : c \in CtpArgs} \cup {<<"bool", 0>>, <<"bool", 1>>}
        \cup {<<"float", 2>>}

\* the Python type of the pipelined argument
PipeTypes == {"bool", "int"}

\* the block_size arguments
BlockSizeArgs == {"None", "(8,8)", "(0,8)", "(8,8,8)", "[8,8]"}

IsTuple(bs) == bs \in {"(8,8)", "(0,8)", "(8,8,8)"}

TupleLen(bs) == IF bs = "(8,8,8)" THEN 3 ELSE 2

PositiveInts(bs) == bs \in {"(8,8)", "(8,8,8)", "[8,8]"}

VARIABLES
    pc,               \* position of the stage: lifecycle and generator yield
    nn,               \* number of yields taken inside the stall loop
    ctp, pipe,        \* self.ctp, self.pipe
    buffer_type,      \* self.buffer_type
    buffered,         \* self.buffered
    arg_buffered,     \* the buffered argument the constructor was given
    args,             \* the other arguments the constructor was given
    block_size,       \* self.block_size
    width_i, width_o, \* len(datain.data), len(dataout.data) given to process()
    reset,            \* glbl.reset, driven by the environment
    fifo_i, fifo_o,   \* TRUE iff self.fifo_i / self.fifo_o is a FIFOReadyValid
    ready,            \* the stage's ready signal
    datain,           \* external input stream, data and valid
    datain_ready,     \* datain.ready, driven by beh_ready
    buffered_data_i,  \* internal stream at the output of fifo_i
    bdi_ready,        \* buffered_data_i.ready
    q_i,              \* contents of fifo_i
    dataproc,         \* holding register
    pipeline,         \* pipeline slots, pipeline[1] is slot 0
    dataout,          \* external output stream, data and valid
    dataout_ready,    \* dataout.ready, driven by the consumer
    err,              \* TRUE iff the generator raised
    now,              \* number of clock edges processed
    nsent,            \* number of samples the producer has presented
    in_log,           \* samples transferred on datain, in order
    acceptedAt,       \* acceptedAt[s]: edge of the transfer of s, 0 if none
    out_log,          \* samples transferred on dataout, in order
    firstOut,         \* firstOut[s]: first edge that drove s on dataout
    readyAt,          \* readyAt[e]: datain.ready as sampled at edge e
    passed_i,         \* samples that came out of fifo_i
    drv_out           \* processes that drove dataout at the last edge

vars == <<pc, nn, ctp, pipe, buffer_type, buffered, arg_buffered, args,
          block_size, width_i, width_o, reset, fifo_i, fifo_o, ready,
          datain, datain_ready, buffered_data_i, bdi_ready, q_i, dataproc,
          pipeline, dataout, dataout_ready, err, now, nsent, in_log,
          acceptedAt, out_log, firstOut, readyAt, passed_i, drv_out>>

cfgVars == <<ctp, pipe, buffer_type, buffered, arg_buffered, args,
            block_size, fifo_i, fifo_o>>

wireVars == <<width_i, width_o>>

sigVars == <<ready, datain, datain_ready, buffered_data_i, q_i, dataproc,
             pipeline, dataout, err>>

histVars == <<now, nsent, in_log, acceptedAt, out_log, firstOut, readyAt,
              passed_i, drv_out>>

\* ------------------------------------------------------------ __init__
\* the check of the buffered string (line 49) left out
ValidConfig_anystr(c, ct, pt, bs, b) ==
    /\ ct \in {"int", "bool"}
    /\ c > 0
    /\ pt = "bool"
    /\ bs # "None" => (IsTuple(bs) /\ TupleLen(bs) = 2)

\* lines 33-37 and 47-49: the configuration checks; ct is the type of
\* cycles_to_process (a bool is an instance of int), pt the type of pipelined
ValidConfig(c, ct, pt, bs, b) ==
    /\ ct \in {"int", "bool"}
    /\ c > 0
    /\ pt = "bool"
    /\ bs # "None" => (IsTuple(bs) /\ TupleLen(bs) = 2)
    /\ b \in {"True", "False", "input", "output"}

\* lines 48-53
BufferType(b) ==
    IF b \in {"input", "output"} THEN b
    ELSE IF b = "True" THEN "both" ELSE "none"

\* lines 51 and 54
Buffered(b) == IF b \in {"input", "output"} THEN TRUE ELSE b = "True"

\* lines 56-63: both buffers are created whenever self.buffered holds
HasFifoI(bf, bt) == bf

HasFifoO(bf, bt) == bf

Init ==
    /\ pc = "new"
    /\ nn = 0
    /\ ctp = 1
    /\ pipe = FALSE
    /\ buffer_type = "none"
    /\ buffered = FALSE
    /\ arg_buffered = "False"
    /\ args = [ctp |-> 1, ctp_type |-> "int", pipe_type |-> "bool",
               block_size |-> "None"]
    /\ block_size = "None"
    /\ width_i = 0
    /\ width_o = 0
    /\ reset = FALSE
    /\ fifo_i = FALSE
    /\ fifo_o = FALSE
    /\ ready = FALSE
    /\ datain = Idle
    /\ datain_ready = FALSE
    /\ buffered_data_i = Idle
    /\ bdi_ready = FALSE
    /\ q_i = <<>>
    /\ dataproc = Idle
    /\ pipeline = <<>>
    /\ dataout = Idle
    /\ dataout_ready = FALSE
    /\ err = FALSE
    /\ now = 0
    /\ nsent = 0
    /\ in_log = <<>>
    /\ acceptedAt = [s \in 1 .. NSamples |-> 0]
    /\ out_log = <<>>
    /\ firstOut = [s \in 1 .. NSamples |-> 0]
    /\ readyAt = <<>>
    /\ passed_i = {}
    /\ drv_out = {}

Construct(c, ct, p, pt, bs, b) ==
    /\ pc = "new"
    /\ arg_buffered' = b
    /\ args' = [ctp |-> c, ctp_type |-> ct, pipe_type |-> pt,
                block_size |-> bs]
    /\ IF ValidConfig(c, ct, pt, bs, b)
       THEN /\ pc' = "constructed"
            /\ ctp' = c
            /\ pipe' = p
            /\ block_size' = bs
            /\ buffer_type' = BufferType(b)
            /\ buffered' = Buffered(b)
            /\ fifo_i' = HasFifoI(Buffered(b), BufferType(b))
            /\ fifo_o' = HasFifoO(Buffered(b), BufferType(b))
       ELSE /\ pc' = "config_error"
            /\ UNCHANGED <<ctp, pipe, block_size, buffer_type, buffered,
                           fifo_i, fifo_o>>
    /\ UNCHANGED <<nn, bdi_ready, dataout_ready, reset>>
    /\ UNCHANGED wireVars
    /\ UNCHANGED sigVars
    /\ UNCHANGED histVars

\* ------------------------------------------------------------- process()
\* one pipeline slot too many
npipe_long(c) == c

\* line 99: npipe = ctp-1
npipe(c) == c - 1

\* one stall edge too many
StallEdges_long(c) == c

\* line 115: range(self.ctp-1), the number of yields of the stall loop
StallEdges(c) == c - 1

\* line 104: ready.next = True
ReadyAtStart == TRUE

\* the unbuffered branch left out: datain.ready is never driven
beh_ready_undriven(bf, r, bir) == IF bf THEN r /\ bir ELSE FALSE

\* lines 89-95: beh_ready, r is ready and bir is buffered_data_i.ready
beh_ready(bf, r, bir) == IF bf THEN r /\ bir ELSE r

\* the width check left out
WidthsMatch_any(wi, wo) == TRUE

\* line 69: assert len(datain.data) == len(dataout.data)
WidthsMatch(wi, wo) == wi = wo

\* lines 66-100: the width check and the creation of the signals.  No process
\* in the source drives buffered_data_i.ready: it keeps the value it is
\* wired with, which the source does not determine (a FIFOReadyValid of
\* unbounded capacity would hold it TRUE, an undriven signal stays FALSE).
Process(wi, wo) ==
    /\ pc = "constructed"
    /\ width_i' = wi
    /\ width_o' = wo
    /\ IF WidthsMatch(wi, wo)
       THEN /\ pc' = "wired"
            /\ pipeline' = [i \in 1 .. npipe(ctp) |-> Idle]
            /\ bdi_ready' \in (IF buffered THEN BOOLEAN ELSE {FALSE})
       ELSE /\ pc' = "wiring_error"
            /\ UNCHANGED <<pipeline, bdi_ready>>
    /\ UNCHANGED <<nn, dataout_ready, ready, datain, datain_ready,
                   buffered_data_i, q_i, dataproc, dataout, err, reset>>
    /\ UNCHANGED cfgVars
    /\ UNCHANGED histVars

\* ---------------------------------------------------------- environment
\* a transfer is committed on an edge iff valid and ready both hold
InTransfer == datain.valid /\ datain_ready

OutTransfer == dataout.valid /\ dataout_ready

\* the producer presents samples 1, 2, ... and holds a sample until it is
\* transferred
ProducerNext(tr) ==
    IF datain.valid /\ ~tr
    THEN {datain}
    ELSE {Idle} \cup (IF nsent < NSamples THEN {Sample(nsent + 1)} ELSE {})

\* the input Elastic Buffer: stores every sample transferred on datain and
\* presents its oldest sample on buffered_data_i
FifoPush == IF fifo_i /\ InTransfer THEN Append(q_i, datain.data) ELSE q_i

FifoCanPop == fifo_i /\ q_i # <<>> /\ (~buffered_data_i.valid \/ bdi_ready)

FifoOut ==
    IF FifoCanPop THEN Sample(Head(q_i))
    ELSE IF buffered_data_i.valid /\ bdi_ready THEN Idle
    ELSE buffered_data_i

\* the output Elastic Buffer: its input stream buffered_data_o is written by
\* no process, so it is empty and has nothing valid to present
FifoODrive == Idle

\* ------------------------------------------------------ processing_model
\* every slot reads the value just written to its predecessor
Shift_through(pl, din) == [i \in 1 .. Len(pl) |-> din]

\* lines 109-111: slot 0 takes the input, slot i the committed value of
\* slot i-1
Shift(pl, din) == [i \in 1 .. Len(pl) |-> IF i = 1 THEN din ELSE pl[i - 1]]

\* the holding register is loaded again on a stall edge
StallHold_resample(dp, din) == din

\* lines 115-117: the stall loop does not write dataproc
StallHold(dp, din) == dp

\* lines 108-118: the body of the loop up to its first yield; r0 is the
\* pending value of ready, din the input stream as read at this edge
ProcBody(r0, din) ==
    IF pipe
    THEN IF npipe(ctp) < 1
         THEN \* line 109: pipeline[0] of an empty list raises IndexError
              [pc |-> "error", nn |-> 0, ready |-> ready,
               dataproc |-> dataproc, pipeline |-> pipeline, err |-> TRUE]
         ELSE [pc |-> "out", nn |-> 0, ready |-> r0,
               dataproc |-> pipeline[npipe(ctp)],
               pipeline |-> Shift(pipeline, din),
               err |-> FALSE]
    ELSE IF StallEdges(ctp) > 0
         THEN [pc |-> "stall", nn |-> 1, ready |-> FALSE,
               dataproc |-> din, pipeline |-> pipeline, err |-> FALSE]
         ELSE [pc |-> "out", nn |-> 0, ready |-> TRUE,
               dataproc |-> din, pipeline |-> pipeline, err |-> FALSE]

\* line 109 / 114: the stream the engine reads its samples from
EngineIn == datain

\* what the edge does outside the generator: the transfers, the producer, the
\* consumer and the input buffer
EdgeEnv ==
    /\ now < MaxEdges
    /\ now' = now + 1
    /\ readyAt' = Append(readyAt, datain_ready)
    /\ in_log' = IF InTransfer THEN Append(in_log, datain.data) ELSE in_log
    /\ acceptedAt' = IF InTransfer /\ acceptedAt[datain.data] = 0
                     THEN [acceptedAt EXCEPT ![datain.data] = now + 1]
                     ELSE acceptedAt
    /\ out_log' = IF OutTransfer THEN Append(out_log, dataout.data)
                  ELSE out_log
    /\ datain' \in ProducerNext(InTransfer)
    /\ nsent' = IF datain'.valid /\ datain'.data > nsent
                THEN datain'.data ELSE nsent
    /\ dataout_ready' \in BOOLEAN
    /\ reset' \in BOOLEAN
    /\ q_i' = IF FifoCanPop THEN Tail(FifoPush) ELSE FifoPush
    /\ buffered_data_i' = FifoOut
    /\ passed_i' = IF buffered_data_i'.valid
                   THEN passed_i \cup {buffered_data_i'.data} ELSE passed_i

\* the record of the first edge that drives each sample on dataout
EdgeOutLog ==
    firstOut' = IF dataout'.valid /\ firstOut[dataout'.data] = 0
                THEN [firstOut EXCEPT ![dataout'.data] = now + 1]
                ELSE firstOut

\* time 0: the generator runs from line 104 to its first yield
Start ==
    /\ pc = "wired"
    /\ LET b == ProcBody(ReadyAtStart, EngineIn)
       IN /\ pc' = b.pc
          /\ nn' = b.nn
          /\ ready' = b.ready
          /\ dataproc' = b.dataproc
          /\ pipeline' = b.pipeline
          /\ err' = b.err
          /\ datain_ready' = IF b.err THEN datain_ready
                             ELSE beh_ready(buffered, b.ready, bdi_ready)
          /\ datain' \in (IF b.err THEN {datain} ELSE ProducerNext(FALSE))
          /\ dataout_ready' \in (IF b.err THEN {FALSE} ELSE BOOLEAN)
          /\ reset' \in (IF b.err THEN {FALSE} ELSE BOOLEAN)
    /\ nsent' = IF datain'.valid THEN datain'.data ELSE nsent
    /\ UNCHANGED <<bdi_ready, buffered_data_i, q_i, dataout>>
    /\ UNCHANGED cfgVars
    /\ UNCHANGED wireVars
    /\ UNCHANGED <<now, in_log, acceptedAt, out_log, firstOut, readyAt,
                   passed_i, drv_out>>

\* an edge taken at the yield of line 117, inside the stall loop
EdgeStall ==
    /\ pc = "stall"
    /\ EdgeEnv
    /\ IF nn < StallEdges(ctp)
       THEN /\ ready' = FALSE
            /\ nn' = nn + 1
            /\ pc' = "stall"
       ELSE /\ ready' = TRUE
            /\ nn' = 0
            /\ pc' = "out"
    /\ datain_ready' = beh_ready(buffered, ready', bdi_ready)
    /\ dataout' \in {dataout} \cup (IF fifo_o THEN {FifoODrive} ELSE {})
    /\ drv_out' = IF fifo_o THEN {"fifo_o"} ELSE {}
    /\ EdgeOutLog
    /\ dataproc' = StallHold(dataproc, EngineIn)
    /\ UNCHANGED <<pipeline, err, bdi_ready>>
    /\ UNCHANGED cfgVars
    /\ UNCHANGED wireVars

\* an edge taken at the yield of line 121: line 122, then the loop body
EdgeOut ==
    /\ pc = "out"
    /\ EdgeEnv
    /\ LET b == ProcBody(ready, EngineIn)
       IN /\ pc' = b.pc
          /\ nn' = b.nn
          /\ ready' = b.ready
          /\ dataproc' = b.dataproc
          /\ pipeline' = b.pipeline
          /\ err' = b.err
    /\ datain_ready' = beh_ready(buffered, ready', bdi_ready)
    /\ dataout' \in {dataproc} \cup (IF fifo_o THEN {FifoODrive} ELSE {})
    /\ drv_out' = {"processing_model"} \cup
                  (IF fifo_o THEN {"fifo_o"} ELSE {})
    /\ EdgeOutLog
    /\ UNCHANGED bdi_ready
    /\ UNCHANGED cfgVars
    /\ UNCHANGED wireVars

Next ==
    \/ \E c \in CtpArgs, p \in BOOLEAN, b \in BufferedArgs :
           Construct(c, "int", p, "bool", "None", b)
    \/ \E wo \in Widths : Process(8, wo)
    \/ Start
    \/ EdgeStall
    \/ EdgeOut

Spec == Init /\ [][Next]_vars

\* the runs of the stages constructed with buffered=False
NextUnbuffered == Next /\ buffer_type' = "none"

SpecUnbuffered == Init /\ [][NextUnbuffered]_vars

\* the runs in which the input buffer always has room: buffered_data_i.ready
\* is high from wiring on
NextFifoReady ==
    Next /\ ((buffered' /\ pc' \notin {"new", "constructed", "config_error",
                                        "wiring_error"}) => bdi_ready')

SpecFifoReady == Init /\ [][NextFifoReady]_vars

\* construction and wiring over all the argument shapes
NextConstruct ==
    \/ \E tc \in CtpTyped, p \in BOOLEAN, pt \in PipeTypes,
          bs \in BlockSizeArgs, b \in BufferedArgs :
           Construct(tc[2], tc[1], p, pt, bs, b)
    \/ \E wi \in Widths, wo \in Widths : Process(wi, wo)

SpecConstruct == Init /\ [][NextConstruct]_vars

\* ------------------------------------------------------------ properties
Running == pc \in {"stall", "out"}

Unbuffered == buffer_type = "none"

IncludesInput == buffer_type \in {"input", "both"}

IncludesOutput == buffer_type \in {"output", "both"}

IsPrefix(a, b) ==
    /\ Len(a) <= Len(b)
    /\ \A i \in 1 .. Len(a) : a[i] = b[i]

\* C1: in every configuration the samples transferred on the output stream
\* are the samples transferred on the input stream, in the same order, none
\* duplicated and none dropped: the output transfers are always a prefix of
\* the input transfers.
C1_OrderAndLossFreedom == IsPrefix(out_log, in_log)

\* C2: unbuffered stage, cyclesToProcess = k, pipelined or not: a sample
\* accepted at edge T is first driven on the output by edge T+k, not earlier
\* and not later (so samples accepted on consecutive edges come out on
\* consecutive edges, in order).
C2_Latency ==
    (Running /\ Unbuffered) =>
        \A s \in 1 .. NSamples :
            /\ (acceptedAt[s] # 0 /\ now >= acceptedAt[s] + ctp)
                   => firstOut[s] = acceptedAt[s] + ctp
            /\ firstOut[s] # 0
                   => (acceptedAt[s] # 0 /\ firstOut[s] = acceptedAt[s] + ctp)

\* a pipelined run in which two samples accepted on consecutive edges have
\* both come out
C2_Witness ==
    /\ Unbuffered /\ pipe /\ ctp = 3
    /\ acceptedAt[1] # 0
    /\ acceptedAt[2] = acceptedAt[1] + 1
    /\ firstOut[1] = acceptedAt[1] + 3
    /\ firstOut[2] = acceptedAt[2] + 3

\* C3: non-pipelined unbuffered stage, cyclesToProcess = k: after a sample is
\* accepted at edge T, readiness is de-asserted at edges T+1 .. T+k-1 and
\* asserted at edge T+k; with k = 1 readiness is asserted at every edge.
C3_StallReadiness ==
    (Running /\ Unbuffered /\ ~pipe) =>
        /\ \A s \in 1 .. NSamples : \A e \in 1 .. Len(readyAt) :
               acceptedAt[s] # 0 =>
                   /\ (acceptedAt[s] < e /\ e < acceptedAt[s] + ctp)
                          => ~readyAt[e]
                   /\ (e = acceptedAt[s] + ctp) => readyAt[e]
        /\ ctp = 1 => \A e \in 1 .. Len(readyAt) : readyAt[e]

\* a non-pipelined run with k = 3 that has passed the stall interval of an
\* accepted sample and the edge that follows it
C3_Witness ==
    /\ Unbuffered /\ ~pipe /\ ctp = 3
    /\ acceptedAt[1] # 0
    /\ Len(readyAt) >= acceptedAt[1] + 3
    /\ ~readyAt[acceptedAt[1] + 1]
    /\ ~readyAt[acceptedAt[1] + 2]
    /\ readyAt[acceptedAt[1] + 3]

\* C4: pipelined unbuffered stage: the readiness shown to the producer is
\* asserted at every clock edge of the run, so every sample the producer
\* presents is transferred at the next edge.
C4_PipelinedAlwaysReady ==
    (Unbuffered /\ pipe) =>
        /\ \A e \in 1 .. Len(readyAt) : readyAt[e]
        /\ Running => datain_ready
        /\ \A s \in 1 .. NSamples :
               (s < nsent \/ (s = nsent /\ ~datain.valid)) => acceptedAt[s] # 0

\* a pipelined run that accepted a sample on each of three consecutive edges
C4_Witness ==
    /\ Unbuffered /\ pipe /\ ctp >= 2
    /\ Len(readyAt) >= 3
    /\ acceptedAt[1] # 0
    /\ acceptedAt[2] = acceptedAt[1] + 1
    /\ acceptedAt[3] = acceptedAt[1] + 2

\* C5: a configuration that passed construction and wiring never reaches an
\* error state of the state machine.
C5_NoRuntimeFailure == ~err

\* C6: the readiness shown to the producer is stageReady AND inputBufferReady
\* in the modes input and both, and stageReady alone in the modes none and
\* output.
C6_ReadinessComposition ==
    (pc \in {"wired", "stall", "out"}) =>
        datain_ready = (IF IncludesInput THEN ready /\ bdi_ready ELSE ready)

\* C7: when the mode includes input, every sample in the holding register
\* (non-pipelined) or in pipeline slot 0 (pipelined) has come out of the
\* input buffer.
C7_InputPath ==
    IncludesInput =>
        /\ (~pipe /\ dataproc.valid) => dataproc.data \in passed_i
        /\ (pipe /\ Len(pipeline) >= 1 /\ pipeline[1].valid)
               => pipeline[1].data \in passed_i

\* C8: when the mode includes output, the engine does not drive the external
\* output stream, and no two processes drive it on the same edge.
C8_OutputPath ==
    IncludesOutput =>
        /\ "processing_model" \notin drv_out
        /\ Cardinality(drv_out) <= 1

\* C9: buffered True resolves to both, False to none, "input" / "output" to
\* that side, and a buffer exists exactly on the sides the mode requires.
C9_BufferPerSide ==
    (pc \notin {"new", "config_error"}) =>
        /\ arg_buffered = "True" => buffer_type = "both"
        /\ arg_buffered = "False" => buffer_type = "none"
        /\ arg_buffered \in {"input", "output"} => buffer_type = arg_buffered
        /\ fifo_i <=> IncludesInput
        /\ fifo_o <=> IncludesOutput

\* C10: mode input: the readiness shown to the producer equals the input
\* buffer's readiness and there is no buffer on the output side.
C10_InputOnly ==
    (buffer_type = "input" /\ Running) =>
        /\ datain_ready = bdi_ready
        /\ ~fifo_o

\* C11: mode both: at every edge at which the consumer is not ready the
\* readiness shown to the producer is asserted, every sample transferred on
\* the input is held by or has come out of the input buffer, and none is
\* lost: the output transfers are a prefix of the input transfers.
C11_BothAbsorbs ==
    (buffer_type = "both" /\ Running /\ now >= 1) =>
        /\ ~dataout_ready => datain_ready
        /\ \A i \in 1 .. Len(in_log) :
               \/ in_log[i] \in passed_i
               \/ \E j \in 1 .. Len(q_i) : q_i[j] = in_log[i]
        /\ IsPrefix(out_log, in_log)

\* C12: before the first clock edge, once the stage is constructed, wired
\* and started, stage readiness is asserted in both modes and for every
\* cyclesToProcess; and every sample the unbuffered stage holds in its
\* holding register or in pipeline slot 0 was transferred on the input.
C12_InitialReadiness ==
    /\ (Running /\ now = 0) => ready
    /\ (Running /\ Unbuffered) =>
           /\ (~pipe /\ dataproc.valid) => acceptedAt[dataproc.data] # 0
           /\ (pipe /\ pipeline[1].valid) => acceptedAt[pipeline[1].data] # 0

\* C13: at every clock edge at which the environment asserts reset the stage
\* returns to its initial condition: readiness asserted, holding register
\* and pipeline slots cleared.
C13_Reset ==
    [][(Running /\ reset /\ now' = now + 1) =>
           /\ ready'
           /\ dataproc' = Idle
           /\ \A i \in 1 .. Len(pipeline') : pipeline'[i] = Idle]_vars

\* the arguments are of the shapes the configuration surface names, except
\* for block_size
ArgsWellTyped ==
    /\ args.ctp_type \in {"int", "bool"}
    /\ args.ctp > 0
    /\ args.pipe_type = "bool"
    /\ arg_buffered \in {"True", "False", "input", "output"}

\* C14 as stated: construction fails exactly when cyclesToProcess is not a
\* positive integer, or pipelined is not a boolean, or blockSize is neither
\* None nor a 2-tuple of positive integers, or buffered is neither a boolean
\* nor "input" / "output"; a failed construction creates nothing.
C14_AsStated ==
    (pc # "new") =>
        /\ pc = "config_error" <=>
               ~(/\ ArgsWellTyped
                 /\ \/ args.block_size = "None"
                    \/ /\ IsTuple(args.block_size)
                       /\ TupleLen(args.block_size) = 2
                       /\ PositiveInts(args.block_size))
        /\ pc = "config_error" => (~fifo_i /\ ~fifo_o /\ ~buffered)

\* C14 (amended): construction fails exactly when cyclesToProcess is not an
\* int instance greater than 0, or pipelined is not a boolean, or blockSize
\* is neither None nor a tuple of length 2 (its elements are not checked), or
\* buffered is neither a boolean nor "input" / "output"; a failed
\* construction creates nothing.
C14_ConstructionValidation ==
    (pc # "new") =>
        /\ pc = "config_error" <=>
               ~(/\ ArgsWellTyped
                 /\ \/ args.block_size = "None"
                    \/ /\ IsTuple(args.block_size)
                       /\ TupleLen(args.block_size) = 2)
        /\ pc = "config_error" => (~fifo_i /\ ~fifo_o /\ ~buffered)

\* a construction that was refused for its block_size alone
C14_Witness ==
    /\ pc = "config_error"
    /\ ArgsWellTyped
    /\ args.block_size = "(8,8,8)"

\* C15: wiring streams of different data widths fails at wiring time, before
\* any clock edge and with every register, buffer and readiness signal of
\* the stage untouched; with equal widths wiring succeeds.
C15_WidthCheck ==
    /\ pc = "wiring_error" =>
           /\ width_i # width_o
           /\ now = 0 /\ ~err
           /\ ~ready /\ ~datain_ready
           /\ dataproc = Idle /\ pipeline = <<>> /\ dataout = Idle
           /\ q_i = <<>> /\ buffered_data_i = Idle
    /\ pc \in {"wired", "stall", "out", "error"} => width_i = width_o

\* a wiring that was refused for a 8 bit input and a 16 bit output
C15_Witness == pc = "wiring_error" /\ width_i = 8 /\ width_o = 16

C18_PeriodicReadiness ==
    [][(~pipe /\ ctp > 1 /\ Unbuffered /\ Running /\ now' = now + 1) =>
           /\ \A e \in 1 .. Len(readyAt') :
                  readyAt'[e] <=> (e % ctp = 0)
           /\ datain_ready =>
                  /\ dataproc' = datain
                  /\ ~ready' /\ ~datain_ready'
                  /\ pc' = "stall"]_vars

\* readiness came and went twice although nothing was ever accepted
C18_Witness ==
    /\ ~pipe /\ ctp = 2 /\ Unbuffered
    /\ Len(readyAt) >= 5
    /\ in_log = <<>> /\ nsent = 0
    /\ readyAt[2] /\ ~readyAt[3] /\ readyAt[4] /\ ~readyAt[5]

====
